---------------------------- MODULE Spec2Model ----------------------------
(***************************************************************************)
(* Model of packages/ghaf-nw-packet-forwarder/src/filter/security.rs:      *)
(* the sliding-window RateLimiter and the Security gate that owns it       *)
(* behind a tokio Mutex, together with the gate's background task.         *)
(*                                                                         *)
(* Three specifications share the same state and the same pure operators:  *)
(*   Spec      the limiter seen as a sequential object: every call of      *)
(*             is_packet_secure / set_rate_limiter and every cleanup of    *)
(*             the background task is one step (the rate_limiter Mutex     *)
(*             makes each of them atomic with respect to the others);      *)
(*   SpecGate  the gate with its two locks, its callers and the            *)
(*             background task modelled await point by await point.        *)
(*   FairGate  SpecGate with the fairness of the tokio scheduler, for the  *)
(*             liveness properties.                                        *)
(* Time is a discrete clock `now`; Instant::now() reads it.                *)
(***************************************************************************)
EXTENDS Integers, Sequences, FiniteSets, TLC

(***************************************************************************)
(* Bounds of the model.                                                    *)
(***************************************************************************)
\* last instant of the clock
MaxTime == 4
\* largest max_requests handed to RateLimiter::new
MaxConfigured == 4
\* `window` handed to RateLimiter::new, in clock units
Window == 2
\* number of other flows that may already be tracked when a run starts
PreFill == 49
\* most requests counted in one window of one key
MaxRun == 4

(***************************************************************************)
(* Program constants.                                                      *)
(***************************************************************************)
\* RateLimiter::new: max_routes: 50
MAX_ROUTES == 50
\* background_task: rate_limiter_cnt = (rate_limiter_cnt + 1) % 10
CLEANUP_EVERY == 10

(***************************************************************************)
(* Inputs.  A flow is <<src_ip, protocol, src_port, dest_port>>; the key    *)
(* of the route table is <<src_ip, protocol, dest_port>>.                  *)
(***************************************************************************)
Flows ==
    { <<PreFill + 1, 6, 1024, 80>>,
      <<PreFill + 1, 6, 2048, 80>>,
      <<PreFill + 2, 17, 1024, 443>>,
      <<PreFill + 1, 6, 0, 80>>,
      <<PreFill + 1, 6, 1024, 0>> }

\* mutant of KeyOf: the source port is part of the key
KeyOf_with_src_port(flow) == <<flow[1], flow[2], flow[3], flow[4]>>

\* let key = (src_ip, protocol, dest_port)
KeyOf(flow) == <<flow[1], flow[2], flow[4]>>

\* keys of the flows that can reach the limiter
ReqKeys == { KeyOf(f) : f \in { g \in Flows : g[3] # 0 /\ g[4] # 0 } }

\* keys of the flows that are already tracked in a pre-filled table
FillerKey(i) == <<i, 6, 80>>

\* "no instant": the value of a history variable that records nothing
NoTime == 0 - 1

\* the tasks that call into the gate
Callers == {"c1", "c2"}

\* the flows of the calls made in SpecGate
GateFlows ==
    { <<PreFill + 1, 6, 1024, 80>>,
      <<PreFill + 1, 6, 0, 80>>,
      <<PreFill + 1, 6, 1024, 0>> }

\* "default" is the CancellationToken::default() of Security::new, which
\* nothing outside the gate holds; "shutdown" is a token of the caller
Tokens == {"default", "shutdown"}

CallerTokens == Tokens \ {"default"}

Free == "free"

\* the arguments of a call in progress: the flow of is_packet_secure, the
\* flag of set_rate_limiter, the token of set_cancel_token
NoArg == [flow |-> <<>>, enabled |-> FALSE, token |-> "none"]

NoCall == [flow |-> <<>>, res |-> FALSE]

VARIABLES
    now,            \* the clock read by Instant::now()
    rate_limiter,   \* Security.rate_limiter: the RateLimiter struct
    g_admitted,     \* history: per key, admissions of the trailing window
    g_run,          \* history: per key, the window that started from idle
    g_idle,         \* history: per key, time since its last request
    g_configured,   \* history: the max_requests handed to RateLimiter::new
    g_unpruned,     \* history: the limiter of the same calls, never cleaned up
    rate_limiter_lock,  \* holder of the Mutex around rate_limiter
    cancel_token_lock,  \* holder of the Mutex around cancel_token
    cancel_token,   \* Security.cancel_token: the token inside its Mutex
    cancelled,      \* the tokens on which cancel() was called
    pc,             \* per caller, the await point its call is at
    arg,            \* per caller, the argument of its call
    ret,            \* the is_packet_secure that returned last
    bg_pc,          \* the await point background_task is at
    rate_limiter_cnt, \* the counter of background_task
    g_tick,         \* history: ticks handled since the start of the loop
                    \* or since the last tenth tick
    g_pruned        \* history: the last tick handled ran the cleanup

hist_vars == <<g_admitted, g_run, g_idle, g_configured, g_unpruned>>

gate_vars == <<rate_limiter_lock, cancel_token_lock, cancel_token, cancelled,
               pc, arg, ret, bg_pc, rate_limiter_cnt, g_tick, g_pruned>>

vars == <<now, rate_limiter, hist_vars, gate_vars>>

(***************************************************************************)
(* RateLimiter                                                             *)
(***************************************************************************)
EmptyRoutes == [k \in {} |-> <<>>]

\* mutant of RateLimiter_new: max_requests is stored as configured
RateLimiter_new_as_configured(enabled, max_requests, window) ==
    [ enabled      |-> enabled,
      routes       |-> EmptyRoutes,
      max_routes   |-> MAX_ROUTES,
      max_requests |-> max_requests,
      window       |-> window ]

\* RateLimiter::new
RateLimiter_new(enabled, max_requests, window) ==
    [ enabled      |-> enabled,
      routes       |-> EmptyRoutes,
      max_routes   |-> MAX_ROUTES,
      max_requests |-> IF max_requests > 1 THEN max_requests - 1
                                           ELSE max_requests,
      window       |-> window ]

\* mutant of retain: a timestamp aged exactly `window` is dropped
retain_strict(timestamps, t, window) ==
    SelectSeq(timestamps, LAMBDA x : t - x < window)

\* mutant of retain: the duration is taken the wrong way round, saturates
\* to zero, and nothing is ever dropped
retain_saturated(timestamps, t, window) ==
    SelectSeq(timestamps, LAMBDA x : 0 <= window)

\* timestamps.retain(|&t| now.duration_since(t) <= self.window)
retain(timestamps, t, window) ==
    SelectSeq(timestamps, LAMBDA x : t - x <= window)

\* self.routes.entry(key).or_default()
entry_or_default(routes, key) ==
    IF key \in DOMAIN routes THEN routes[key] ELSE <<>>

\* the route table with `key` bound to `timestamps`
with_entry(routes, key, timestamps) ==
    (key :> timestamps) @@ routes

\* mutant of at_capacity: the table is full only above max_routes
at_capacity_above(self, key) ==
    /\ Cardinality(DOMAIN self.routes) > self.max_routes
    /\ key \notin DOMAIN self.routes

\* mutant of at_capacity: a full table also turns tracked keys away
at_capacity_any_key(self, key) ==
    Cardinality(DOMAIN self.routes) >= self.max_routes

\* the "Prevent memory explosion" test of is_allowed
at_capacity(self, key) ==
    /\ Cardinality(DOMAIN self.routes) >= self.max_routes
    /\ key \notin DOMAIN self.routes

\* mutant of within_limit: one request too many is let through
within_limit_inclusive(self, timestamps) ==
    Len(timestamps) <= self.max_requests

\* the "Check if within rate limit" test of is_allowed
within_limit(self, timestamps) == Len(timestamps) < self.max_requests

\* mutant of is_allowed: the keys whose timestamps have all expired are
\* dropped on the way
is_allowed_evicting_idle(self, key, t) ==
    LET pruned  == [k \in DOMAIN self.routes |->
                       retain(self.routes[k], t, self.window)]
        kept    == { k \in DOMAIN pruned : pruned[k] # <<>> }
        cleaned == [self EXCEPT !.routes = [k \in kept |-> pruned[k]]]
    IN  IF at_capacity(cleaned, key)
        THEN [self |-> cleaned, result |-> FALSE]
        ELSE LET timestamps == entry_or_default(cleaned.routes, key)
             IN  IF within_limit(cleaned, timestamps)
                 THEN [self   |-> [cleaned EXCEPT !.routes =
                                    with_entry(@, key, Append(timestamps, t))],
                       result |-> TRUE]
                 ELSE [self   |-> [cleaned EXCEPT !.routes =
                                    with_entry(@, key, timestamps)],
                       result |-> FALSE]

\* mutant of is_allowed: a denied request is recorded too
is_allowed_records_denied(self, key, t) ==
    IF at_capacity(self, key)
    THEN [self |-> self, result |-> FALSE]
    ELSE LET timestamps ==
                 retain(entry_or_default(self.routes, key), t, self.window)
         IN  [self   |-> [self EXCEPT !.routes =
                            with_entry(@, key, Append(timestamps, t))],
              result |-> within_limit(self, timestamps)]

\* RateLimiter::is_allowed at instant t: the limiter after the call, and
\* the value returned
is_allowed(self, key, t) ==
    IF at_capacity(self, key)
    THEN [self |-> self, result |-> FALSE]
    ELSE LET timestamps ==
                 retain(entry_or_default(self.routes, key), t, self.window)
         IN  IF within_limit(self, timestamps)
             THEN [self   |-> [self EXCEPT !.routes =
                                  with_entry(@, key, Append(timestamps, t))],
                   result |-> TRUE]
             ELSE [self   |-> [self EXCEPT !.routes =
                                  with_entry(@, key, timestamps)],
                   result |-> FALSE]

\* mutant of cleanup_old_requests: a timestamp aged exactly `window` is
\* dropped too
cleanup_drops_boundary(self, t) ==
    LET pruned == [k \in DOMAIN self.routes |->
                      retain_strict(self.routes[k], t, self.window)]
        kept   == { k \in DOMAIN pruned : pruned[k] # <<>> }
    IN  [self EXCEPT !.routes = [k \in kept |-> pruned[k]]]

\* mutant of cleanup_old_requests: keys left without timestamps stay
cleanup_keeps_empty_keys(self, t) ==
    [self EXCEPT !.routes = [k \in DOMAIN self.routes |->
                                retain(self.routes[k], t, self.window)]]

\* RateLimiter::cleanup_old_requests at instant t
cleanup_old_requests(self, t) ==
    LET pruned == [k \in DOMAIN self.routes |->
                      retain(self.routes[k], t, self.window)]
        kept   == { k \in DOMAIN pruned : pruned[k] # <<>> }
    IN  [self EXCEPT !.routes = [k \in kept |-> pruned[k]]]

(***************************************************************************)
(* Security: the body of is_packet_secure once the limiter is locked       *)
(***************************************************************************)
\* mutant of malformed: only the destination port is tested
malformed_dest_only(flow) == flow[4] = 0

\* lines 84-86: the port test made before the lock is taken
malformed(flow) == flow[4] = 0 \/ flow[3] = 0

\* mutant of locked_check: the enabled flag is not looked at
locked_check_always(self, flow, t) == is_allowed(self, KeyOf(flow), t)

\* lines 90-94: the limiter after the call, and the value returned
locked_check(self, flow, t) ==
    IF ~self.enabled
    THEN [self |-> self, result |-> TRUE]
    ELSE is_allowed(self, KeyOf(flow), t)

\* is_packet_secure as a whole
is_packet_secure(self, flow, t) ==
    IF malformed(flow)
    THEN [self |-> self, result |-> FALSE]
    ELSE locked_check(self, flow, t)

(***************************************************************************)
(* Traffic that arrived before the run: n other flows, one request each    *)
(* at instant 0, made through is_allowed.                                  *)
(***************************************************************************)
RECURSIVE requests_at_0(_, _, _)
requests_at_0(self, lo, hi) ==
    IF lo > hi THEN self
    ELSE IF lo = hi THEN is_allowed(self, FillerKey(lo), 0).self
    ELSE LET mid  == (lo + hi) \div 2
             left == requests_at_0(self, lo, mid)
         IN  \* the test evaluates the first half before the second starts,
             \* which keeps the evaluation shallow; it is always true
             IF DOMAIN left.routes # {}
             THEN requests_at_0(left, mid + 1, hi)
             ELSE left

Prefilled(self, n) == requests_at_0(self, 1, n)

(***************************************************************************)
(* History variables of the claims                                         *)
(***************************************************************************)
NoRun == [start |-> NoTime, n |-> 0]

\* x lies in the trailing window [t - Window, t]
InTrailingWindow(x, t) == t - Window <= x /\ x <= t

TrimAdmitted(adm, t) ==
    [k \in ReqKeys |-> SelectSeq(adm[k], LAMBDA x : InTrailingWindow(x, t))]

TrimRun(run, t) ==
    [k \in ReqKeys |->
        IF run[k].start # NoTime /\ t - run[k].start > Window
        THEN NoRun ELSE run[k]]

AgeIdle(idle) ==
    [k \in ReqKeys |->
        IF idle[k] = NoTime THEN NoTime
        ELSE IF idle[k] > Window THEN idle[k] ELSE idle[k] + 1]

\* key k is tracked or the table has room for it
CanEnter(k) ==
    \/ k \in DOMAIN rate_limiter.routes
    \/ Cardinality(DOMAIN rate_limiter.routes) < rate_limiter.max_routes

\* key k has no admission in the trailing window and can enter the table:
\* a request for it now opens a window that starts from idle
StartsWindow(k) == g_admitted[k] = <<>> /\ CanEnter(k)

\* a request for key k reaches is_allowed at instant `now`
RunAfterRequest(k) ==
    IF g_run[k].start # NoTime
    THEN [g_run[k] EXCEPT !.n = @ + 1]
    ELSE IF StartsWindow(k) THEN [start |-> now, n |-> 1]
         ELSE NoRun

(***************************************************************************)
(* Spec: the limiter as a sequential object                                *)
(***************************************************************************)
\* Security::new around a limiter built by RateLimiter::new, with the
\* background task spawned and not yet polled
Security_new(configured, fills) ==
    /\ now = 0
    /\ \E enabled \in BOOLEAN, max_requests \in configured, n \in fills :
          /\ rate_limiter =
                Prefilled(RateLimiter_new(enabled, max_requests, Window), n)
          /\ g_configured = max_requests
    /\ g_unpruned = rate_limiter
    /\ g_admitted = [k \in ReqKeys |-> <<>>]
    /\ g_run = [k \in ReqKeys |-> NoRun]
    /\ g_idle = [k \in ReqKeys |-> NoTime]
    /\ rate_limiter_lock = Free
    /\ cancel_token_lock = Free
    /\ cancel_token = "default"
    /\ cancelled = {}
    /\ pc = [c \in Callers |-> "idle"]
    /\ arg = [c \in Callers |-> NoArg]
    /\ ret = NoCall
    /\ bg_pc = "spawned"
    /\ rate_limiter_cnt = 0
    /\ g_tick = 0
    /\ g_pruned = FALSE

Init == Security_new(0 .. MaxConfigured, {0, PreFill})

\* the clock advances by one unit
AdvanceTime ==
    /\ now < MaxTime
    /\ now' = now + 1
    /\ g_admitted' = TrimAdmitted(g_admitted, now + 1)
    /\ g_run' = TrimRun(g_run, now + 1)
    /\ g_idle' = AgeIdle(g_idle)
    /\ UNCHANGED <<rate_limiter, g_configured, g_unpruned, gate_vars>>

\* Security::is_packet_secure(src_ip, protocol, src_port, dest_port)
IsPacketSecure(flow) ==
    LET out == is_packet_secure(rate_limiter, flow, now)
        k   == KeyOf(flow)
        counted == ~malformed(flow) /\ rate_limiter.enabled
    IN  /\ counted => g_run[k].n < MaxRun
        /\ rate_limiter' = out.self
        /\ g_admitted' =
              IF counted /\ out.result
              THEN [g_admitted EXCEPT ![k] = Append(@, now)]
              ELSE g_admitted
        /\ g_run' =
              IF counted THEN [g_run EXCEPT ![k] = RunAfterRequest(k)]
              ELSE g_run
        /\ g_idle' =
              IF malformed(flow) THEN g_idle
              ELSE [g_idle EXCEPT ![k] = 0]
        /\ g_unpruned' = is_packet_secure(g_unpruned, flow, now).self
        /\ UNCHANGED <<now, g_configured, gate_vars>>

\* Security::set_rate_limiter(enabled)
SetRateLimiter(enabled) ==
    /\ rate_limiter' = [rate_limiter EXCEPT !.enabled = enabled]
    /\ g_run' = IF enabled THEN g_run ELSE [k \in ReqKeys |-> NoRun]
    /\ g_unpruned' = [g_unpruned EXCEPT !.enabled = enabled]
    /\ UNCHANGED <<now, g_admitted, g_idle, g_configured, gate_vars>>

\* a cleanup tick of background_task: cleanup_old_requests under the lock
CleanupTick ==
    /\ rate_limiter' = cleanup_old_requests(rate_limiter, now)
    /\ UNCHANGED <<now, hist_vars, gate_vars>>

Next ==
    \/ AdvanceTime
    \/ \E flow \in Flows : IsPacketSecure(flow)
    \/ \E enabled \in BOOLEAN : SetRateLimiter(enabled)
    \/ CleanupTick

Spec == Init /\ [][Next]_vars

(***************************************************************************)
(* SpecGate: Security with its two Mutexes, its callers and the            *)
(* background task, one step per await point.  A call that waits at        *)
(* lock().await is at "..._lock"; once it holds the guard it is at         *)
(* "..._locked", and the rest of the function runs without another await.  *)
(***************************************************************************)
\* mutant of watched_token: the task watches the token the gate was built
\* with, whatever cancel_token holds when it starts
watched_token_of_new == "default"

\* the token background_task watches: the one behind the guard it took
watched_token == cancel_token

\* is_packet_secure, lines 84-88: the port test, then rate_limiter.lock()
is_packet_secure_call(c, flow) ==
    /\ pc[c] = "idle"
    /\ IF malformed(flow)
       THEN /\ ret' = [flow |-> flow, res |-> FALSE]
            /\ UNCHANGED <<pc, arg>>
       ELSE /\ pc' = [pc EXCEPT ![c] = "ips_lock"]
            /\ arg' = [arg EXCEPT ![c] = [NoArg EXCEPT !.flow = flow]]
            /\ UNCHANGED ret
    /\ UNCHANGED <<now, rate_limiter, hist_vars, rate_limiter_lock,
                   cancel_token_lock, cancel_token, cancelled, bg_pc,
                   rate_limiter_cnt,
                   g_tick, g_pruned>>

\* mutant of is_packet_secure_lock: the guard is handed out although the
\* lock is held
is_packet_secure_lock_unguarded(c) ==
    /\ pc[c] = "ips_lock"
    /\ rate_limiter_lock' = c
    /\ pc' = [pc EXCEPT ![c] = "ips_locked"]
    /\ UNCHANGED <<now, rate_limiter, hist_vars, cancel_token_lock,
                   cancel_token, cancelled, arg, ret, bg_pc,
                   rate_limiter_cnt,
                   g_tick, g_pruned>>

\* is_packet_secure, line 88: the lock is granted
is_packet_secure_lock(c) ==
    /\ pc[c] = "ips_lock"
    /\ rate_limiter_lock = Free
    /\ rate_limiter_lock' = c
    /\ pc' = [pc EXCEPT ![c] = "ips_locked"]
    /\ UNCHANGED <<now, rate_limiter, hist_vars, cancel_token_lock,
                   cancel_token, cancelled, arg, ret, bg_pc,
                   rate_limiter_cnt,
                   g_tick, g_pruned>>

\* is_packet_secure, lines 90-95: the check under the lock, and the return
is_packet_secure_return(c) ==
    /\ pc[c] = "ips_locked"
    /\ LET out == locked_check(rate_limiter, arg[c].flow, now)
       IN  /\ rate_limiter' = out.self
           /\ ret' = [flow |-> arg[c].flow, res |-> out.result]
    /\ g_unpruned' = locked_check(g_unpruned, arg[c].flow, now).self
    /\ rate_limiter_lock' = Free
    /\ pc' = [pc EXCEPT ![c] = "idle"]
    /\ arg' = [arg EXCEPT ![c] = NoArg]
    /\ UNCHANGED <<now, g_admitted, g_run, g_idle, g_configured,
                   cancel_token_lock, cancel_token, cancelled, bg_pc,
                   rate_limiter_cnt,
                   g_tick, g_pruned>>

\* set_rate_limiter, line 98: rate_limiter.lock()
set_rate_limiter_call(c, enabled) ==
    /\ pc[c] = "idle"
    /\ pc' = [pc EXCEPT ![c] = "srl_lock"]
    /\ arg' = [arg EXCEPT ![c] = [NoArg EXCEPT !.enabled = enabled]]
    /\ UNCHANGED <<now, rate_limiter, hist_vars, rate_limiter_lock,
                   cancel_token_lock, cancel_token, cancelled, ret, bg_pc,
                   rate_limiter_cnt,
                   g_tick, g_pruned>>

\* set_rate_limiter, line 98: the lock is granted
set_rate_limiter_lock(c) ==
    /\ pc[c] = "srl_lock"
    /\ rate_limiter_lock = Free
    /\ rate_limiter_lock' = c
    /\ pc' = [pc EXCEPT ![c] = "srl_locked"]
    /\ UNCHANGED <<now, rate_limiter, hist_vars, cancel_token_lock,
                   cancel_token, cancelled, arg, ret, bg_pc,
                   rate_limiter_cnt,
                   g_tick, g_pruned>>

\* set_rate_limiter, lines 100-101: the flag is written, and the return
set_rate_limiter_return(c) ==
    /\ pc[c] = "srl_locked"
    /\ rate_limiter' = [rate_limiter EXCEPT !.enabled = arg[c].enabled]
    /\ g_unpruned' = [g_unpruned EXCEPT !.enabled = arg[c].enabled]
    /\ rate_limiter_lock' = Free
    /\ pc' = [pc EXCEPT ![c] = "idle"]
    /\ arg' = [arg EXCEPT ![c] = NoArg]
    /\ UNCHANGED <<now, g_admitted, g_run, g_idle, g_configured,
                   cancel_token_lock, cancel_token, cancelled, ret, bg_pc,
                   rate_limiter_cnt,
                   g_tick, g_pruned>>

\* set_cancel_token, line 103: cancel_token.lock()
set_cancel_token_call(c, token) ==
    /\ pc[c] = "idle"
    /\ pc' = [pc EXCEPT ![c] = "sct_lock"]
    /\ arg' = [arg EXCEPT ![c] = [NoArg EXCEPT !.token = token]]
    /\ UNCHANGED <<now, rate_limiter, hist_vars, rate_limiter_lock,
                   cancel_token_lock, cancel_token, cancelled, ret, bg_pc,
                   rate_limiter_cnt,
                   g_tick, g_pruned>>

\* set_cancel_token, line 103: the lock is granted
set_cancel_token_lock(c) ==
    /\ pc[c] = "sct_lock"
    /\ cancel_token_lock = Free
    /\ cancel_token_lock' = c
    /\ pc' = [pc EXCEPT ![c] = "sct_locked"]
    /\ UNCHANGED <<now, rate_limiter, hist_vars, rate_limiter_lock,
                   cancel_token, cancelled, arg, ret, bg_pc,
                   rate_limiter_cnt,
                   g_tick, g_pruned>>

\* set_cancel_token, lines 104-105: the token is replaced, and the return
set_cancel_token_return(c) ==
    /\ pc[c] = "sct_locked"
    /\ cancel_token' = arg[c].token
    /\ cancel_token_lock' = Free
    /\ pc' = [pc EXCEPT ![c] = "idle"]
    /\ arg' = [arg EXCEPT ![c] = NoArg]
    /\ UNCHANGED <<now, rate_limiter, hist_vars, rate_limiter_lock,
                   cancelled, ret, bg_pc, rate_limiter_cnt,
                   g_tick, g_pruned>>

\* the holder of a token of its own calls cancel() on it
cancel(token) ==
    /\ token \notin cancelled
    /\ cancelled' = cancelled \cup {token}
    /\ UNCHANGED <<now, rate_limiter, hist_vars, rate_limiter_lock,
                   cancel_token_lock, cancel_token, pc, arg, ret, bg_pc,
                   rate_limiter_cnt,
                   g_tick, g_pruned>>

\* background_task, lines 52-54: the guard of cancel_token is taken and
\* kept in a local that lives until the function returns
background_task_start ==
    /\ bg_pc = "spawned"
    /\ cancel_token_lock = Free
    /\ cancel_token_lock' = "bg"
    /\ bg_pc' = "select"
    /\ UNCHANGED <<now, rate_limiter, hist_vars, rate_limiter_lock,
                   cancel_token, cancelled, pc, arg, ret, rate_limiter_cnt,
                   g_tick, g_pruned>>

\* background_task, line 64: interval.tick() completes; the branch goes
\* on to rate_limiter.lock()
background_task_tick ==
    /\ bg_pc = "select"
    /\ bg_pc' = "rl_lock"
    /\ UNCHANGED <<now, rate_limiter, hist_vars, rate_limiter_lock,
                   cancel_token_lock, cancel_token, cancelled, pc, arg, ret,
                   rate_limiter_cnt,
                   g_tick, g_pruned>>

\* background_task, line 65: the lock is granted
background_task_lock ==
    /\ bg_pc = "rl_lock"
    /\ rate_limiter_lock = Free
    /\ rate_limiter_lock' = "bg"
    /\ bg_pc' = "rl_locked"
    /\ UNCHANGED <<now, rate_limiter, hist_vars, cancel_token_lock,
                   cancel_token, cancelled, pc, arg, ret, rate_limiter_cnt,
                   g_tick, g_pruned>>

\* the number of the tick after tick n, counted within its group of ten
NextTick(n) == IF n = 10 THEN 1 ELSE n + 1

\* mutant of tick_branch: the counter is tested before it is advanced
tick_branch_tests_before_count(cnt, self, t) ==
    [ cnt     |-> (cnt + 1) % CLEANUP_EVERY,
      self    |-> IF cnt = 0 THEN cleanup_old_requests(self, t) ELSE self,
      cleaned |-> cnt = 0 ]

\* mutant of tick_branch: the cleanup is never called
tick_branch_never_cleans(cnt, self, t) ==
    [ cnt     |-> (cnt + 1) % CLEANUP_EVERY,
      self    |-> self,
      cleaned |-> FALSE ]

\* background_task, lines 66-71, with the guard held: the counter after the
\* tick, the limiter after it, and whether cleanup_old_requests was called
tick_branch(cnt, self, t) ==
    LET next == (cnt + 1) % CLEANUP_EVERY
    IN  [ cnt     |-> next,
          self    |-> IF next = 0 THEN cleanup_old_requests(self, t) ELSE self,
          cleaned |-> next = 0 ]

\* mutant of background_task_count: the guard of rate_limiter outlives the
\* tick branch
background_task_count_keeps_guard ==
    /\ bg_pc = "rl_locked"
    /\ LET out == tick_branch(rate_limiter_cnt, rate_limiter, now)
       IN  /\ rate_limiter_cnt' = out.cnt
           /\ rate_limiter' = out.self
           /\ g_pruned' = out.cleaned
    /\ g_tick' = NextTick(g_tick)
    /\ bg_pc' = "select"
    /\ UNCHANGED <<now, hist_vars, rate_limiter_lock, cancel_token_lock,
                   cancel_token, cancelled, pc, arg, ret>>

\* background_task, lines 66-72: the counter, the cleanup when it wraps,
\* the guard dropped at the end of the branch
background_task_count ==
    /\ bg_pc = "rl_locked"
    /\ LET out == tick_branch(rate_limiter_cnt, rate_limiter, now)
       IN  /\ rate_limiter_cnt' = out.cnt
           /\ rate_limiter' = out.self
           /\ g_pruned' = out.cleaned
    /\ g_tick' = NextTick(g_tick)
    /\ rate_limiter_lock' = Free
    /\ bg_pc' = "select"
    /\ UNCHANGED <<now, hist_vars, cancel_token_lock, cancel_token,
                   cancelled, pc, arg, ret>>

\* background_task, lines 58-62: select! finds cancelled() ready, drops
\* the other branch and breaks; the function returns and its guard of
\* cancel_token is dropped
background_task_cancelled ==
    /\ bg_pc \in {"select", "rl_lock"}
    /\ watched_token \in cancelled
    /\ bg_pc' = "stopped"
    /\ cancel_token_lock' = Free
    /\ UNCHANGED <<now, rate_limiter, hist_vars, rate_limiter_lock,
                   cancel_token, cancelled, pc, arg, ret, rate_limiter_cnt,
                   g_tick, g_pruned>>

GateInit == Security_new({2}, {0})

GateNext ==
    \/ \E c \in Callers :
          \/ \E flow \in GateFlows : is_packet_secure_call(c, flow)
          \/ is_packet_secure_lock(c)
          \/ is_packet_secure_return(c)
          \/ \E enabled \in BOOLEAN : set_rate_limiter_call(c, enabled)
          \/ set_rate_limiter_lock(c)
          \/ set_rate_limiter_return(c)
          \/ \E token \in CallerTokens : set_cancel_token_call(c, token)
          \/ set_cancel_token_lock(c)
          \/ set_cancel_token_return(c)
    \/ \E token \in CallerTokens : cancel(token)
    \/ background_task_start
    \/ background_task_tick
    \/ background_task_lock
    \/ background_task_count
    \/ background_task_cancelled

SpecGate == GateInit /\ [][GateNext]_vars

\* Scheduling: a task that can run is polled and the timer of interval
\* fires (weak fairness of every step of a call in progress and of the
\* background task).  tokio's Mutex hands the lock to its waiters in turn
\* and select! takes a branch that stays ready: strong fairness is stated
\* for the callers' acquisition of the cancel_token lock, for the task's
\* acquisition of the rate_limiter lock and for the cancelled() branch, and
\* only weak fairness, which is less than the Mutex gives, for the other
\* acquisitions.  Nothing makes the callers call or the tokens fire.
GateFairness ==
    /\ \A c \in Callers :
          /\ WF_vars(is_packet_secure_lock(c))
          /\ WF_vars(is_packet_secure_return(c))
          /\ WF_vars(set_rate_limiter_lock(c))
          /\ WF_vars(set_rate_limiter_return(c))
          /\ SF_vars(set_cancel_token_lock(c))
          /\ WF_vars(set_cancel_token_return(c))
    /\ WF_vars(background_task_start)
    /\ WF_vars(background_task_tick)
    /\ SF_vars(background_task_lock)
    /\ WF_vars(background_task_count)
    /\ SF_vars(background_task_cancelled)

FairGate == GateInit /\ [][GateNext]_vars /\ GateFairness

\* Scheduling as seen by the callers of the rate_limiter lock: the Mutex
\* hands the lock to each waiter in turn (strong fairness of the callers'
\* acquisitions), and a task that holds the guard runs on to the point
\* where it drops it (weak fairness).  Nothing is assumed of the timer, of
\* the tokens or of the lock of cancel_token.
CallFairness ==
    /\ \A c \in Callers :
          /\ SF_vars(is_packet_secure_lock(c))
          /\ WF_vars(is_packet_secure_return(c))
          /\ SF_vars(set_rate_limiter_lock(c))
          /\ WF_vars(set_rate_limiter_return(c))
    /\ WF_vars(background_task_count)

FairCalls == GateInit /\ [][GateNext]_vars /\ CallFairness

(***************************************************************************)
(* SpecLoop: the limiter as a sequential object together with the          *)
(* background task and the clock: the calls of is_packet_secure are single *)
(* steps taken while the lock of rate_limiter is free, the background task *)
(* runs await point by await point as in SpecGate, time passes, and one    *)
(* caller may replace and fire the token.  The table starts with PreFill   *)
(* keys.                                                                   *)
(***************************************************************************)
\* the task that replaces the token in SpecLoop
LoopCallers == {"c1"}

\* the flows of the calls made in SpecLoop: two keys
LoopFlows == { <<PreFill + 1, 6, 1024, 80>>, <<PreFill + 2, 17, 1024, 443>> }

LoopInit == Security_new({2}, {PreFill})

\* Security::is_packet_secure as one step, taken when the lock is free
LoopCall(flow) ==
    /\ rate_limiter_lock = Free
    /\ IsPacketSecure(flow)

LoopNext ==
    \/ AdvanceTime
    \/ \E flow \in LoopFlows : LoopCall(flow)
    \/ \E c \in LoopCallers :
          \/ \E token \in CallerTokens : set_cancel_token_call(c, token)
          \/ set_cancel_token_lock(c)
          \/ set_cancel_token_return(c)
    \/ \E token \in CallerTokens : cancel(token)
    \/ background_task_start
    \/ background_task_tick
    \/ background_task_lock
    \/ background_task_count
    \/ background_task_cancelled

SpecLoop == LoopInit /\ [][LoopNext]_vars

\* Scheduling of the background task: its timer fires, it is polled when
\* it can run, and it is handed the lock of rate_limiter, which in SpecLoop
\* nobody else holds across steps.  Nothing makes the callers call, time
\* pass or the token fire.
LoopFairness ==
    /\ WF_vars(background_task_tick)
    /\ WF_vars(background_task_lock)
    /\ WF_vars(background_task_count)

FairLoop == LoopInit /\ [][LoopNext]_vars /\ LoopFairness

(***************************************************************************)
(* Claims checked under Spec.  Decision(f) is what is_packet_secure        *)
(* returns for flow f in the current state, and After(f) the limiter it    *)
(* leaves; IsPacketSecure(f) is enabled in every state the formulas        *)
(* speak of, so each formula speaks of the calls that do happen.           *)
(***************************************************************************)
Routes == rate_limiter.routes

Tracked == DOMAIN Routes

Decision(f) == is_packet_secure(rate_limiter, f, now).result

After(f) == is_packet_secure(rate_limiter, f, now).self

\* the flows with nonzero source and destination ports
WellFormed == { f \in Flows : f[3] # 0 /\ f[4] # 0 }

\* C1: with the limiter enabled, in a window that starts with the key idle
\* (no admission of it in the trailing window) and able to enter the
\* table, the Nth request for the key is admitted iff N <= max_requests,
\* the effective cap; so request max_requests + 1 is denied.
C1_NthAdmittedIffWithinCap ==
    \A f \in WellFormed :
        LET k == KeyOf(f)
            N == IF g_run[k].start # NoTime THEN g_run[k].n + 1 ELSE 1
        IN  ( /\ rate_limiter.enabled
              /\ g_run[k].start # NoTime \/ StartsWindow(k) ) =>
            (Decision(f) <=> N <= rate_limiter.max_requests)

\* C1 witness: with an effective cap of 2, three requests were made in one
\* window from idle; two were admitted, the third was not, and a fourth
\* would not be.
C1_Witness ==
    \E f \in WellFormed :
        /\ rate_limiter.enabled
        /\ rate_limiter.max_requests = 2
        /\ g_run[KeyOf(f)].n = 3
        /\ g_admitted[KeyOf(f)] = Routes[KeyOf(f)]
        /\ Len(Routes[KeyOf(f)]) = 2
        /\ ~Decision(f)

\* C2: at every instant, for every key, the number of requests that
\* is_allowed admitted in the trailing window [now - window, now] is at
\* most max_requests, whatever the interleaving with cleanups.
C2_AtMostCapPerTrailingWindow ==
    \A k \in ReqKeys : Len(g_admitted[k]) <= rate_limiter.max_requests

\* C2 witness: a key holds max_requests = 2 admissions made at two
\* different instants of one trailing window, the older one at the very
\* edge of it.
C2_Witness ==
    \E k \in ReqKeys :
        /\ rate_limiter.max_requests = 2
        /\ g_admitted[k] = <<now - Window, now>>

\* C3 as stated, for a limiter whose cap admits at least one request: for
\* a tracked key, once a duration >= window has passed without a request
\* for it, the next request is admitted.
C3_AdmittedAfterWindowOrMore ==
    \A f \in WellFormed :
        ( /\ rate_limiter.enabled
          /\ rate_limiter.max_requests >= 1
          /\ KeyOf(f) \in Tracked
          /\ g_idle[KeyOf(f)] >= Window ) => Decision(f)

\* C3 amended: with max_requests >= 1, for a key that is still tracked or
\* a table below max_routes, once a duration strictly greater than window
\* has passed without a request for the key, the next request is admitted.
C3_AdmittedAfterMoreThanWindow ==
    \A f \in WellFormed :
        ( /\ rate_limiter.enabled
          /\ rate_limiter.max_requests >= 1
          /\ CanEnter(KeyOf(f))
          /\ g_idle[KeyOf(f)] > Window ) => Decision(f)

\* C3 witness: a key is still tracked with as many timestamps as the cap
\* allows, more than a window has passed since its last request, and the
\* request made now is admitted.
C3_Witness ==
    \E f \in WellFormed :
        /\ rate_limiter.enabled
        /\ rate_limiter.max_requests = 2
        /\ KeyOf(f) \in Tracked
        /\ Len(Routes[KeyOf(f)]) = 2
        /\ g_idle[KeyOf(f)] > Window
        /\ Decision(f)
        /\ After(f).routes[KeyOf(f)] = <<now>>

\* C4: the route table never holds more than max_routes keys.
C4_RouteTableBounded ==
    Cardinality(Tracked) <= rate_limiter.max_routes

\* C4 witness: the table holds max_routes keys, a request for one more key
\* was made at this instant and the key is not in the table.
C4_Witness ==
    /\ Cardinality(Tracked) = MAX_ROUTES
    /\ rate_limiter.enabled
    /\ \E k \in ReqKeys \ Tracked : g_idle[k] = 0
    /\ \E k \in ReqKeys \cap Tracked : g_idle[k] = 0

\* the decision is_allowed makes for key k with room for one more key
DecisionBelowCapacity(k) ==
    is_allowed([rate_limiter EXCEPT !.max_routes = @ + 1], k, now).result

\* C5: with max_routes keys tracked, is_allowed for an untracked key
\* returns false and leaves the limiter as it was, and is_allowed for a
\* tracked key returns what it would return below capacity.
C5_CapacityOnlyStopsNewKeys ==
    \A k \in ReqKeys :
        Cardinality(Tracked) >= rate_limiter.max_routes =>
            LET out == is_allowed(rate_limiter, k, now)
            IN  IF k \in Tracked
                THEN out.result = DecisionBelowCapacity(k)
                ELSE ~out.result /\ out.self = rate_limiter

\* C5 witness: in a full table one key of the requests is tracked and is
\* admitted, another is not tracked.
C5_Witness ==
    /\ Cardinality(Tracked) = MAX_ROUTES
    /\ ReqKeys \ Tracked # {}
    /\ \E k \in ReqKeys \cap Tracked :
          /\ Routes[k] # <<>>
          /\ is_allowed(rate_limiter, k, now).result

\* C9: while the limiter is disabled every is_packet_secure with nonzero
\* ports returns true and leaves the limiter, route table included,
\* unchanged.
C9_DisabledAdmitsAndKeepsState ==
    \A f \in WellFormed :
        ~rate_limiter.enabled =>
            Decision(f) /\ After(f) = rate_limiter

\* C9 witness: disabled, with a full table, one key untracked and another
\* tracked with as many live timestamps as the cap allows.
C9_Witness ==
    /\ ~rate_limiter.enabled
    /\ Cardinality(Tracked) = MAX_ROUTES
    /\ \E k \in ReqKeys \ Tracked : g_idle[k] = 0
    /\ \E k \in ReqKeys \cap Tracked :
          /\ rate_limiter.max_requests >= 1
          /\ g_admitted[k] = Routes[k]
          /\ Len(Routes[k]) = rate_limiter.max_requests

\* the timestamps of a sequence whose age at instant t is at most window
NotExpired(timestamps, t) ==
    SelectSeq(timestamps, LAMBDA x : InTrailingWindow(x, t))

\* C10: a cleanup removes from every tracked key exactly the timestamps
\* older than window, and removes exactly the keys left without any.
C10_CleanupRemovesExactlyExpired ==
    LET after == cleanup_old_requests(rate_limiter, now).routes
    IN  /\ DOMAIN after =
              { k \in Tracked : NotExpired(Routes[k], now) # <<>> }
        /\ \A k \in DOMAIN after : after[k] = NotExpired(Routes[k], now)

\* C10 witness: a key holds a timestamp older than window and one aged
\* less than window, and a cleanup leaves it with the second only.
C10_Witness ==
    \E k \in ReqKeys \cap Tracked :
        /\ Routes[k] = <<now - Window - 1, now - 1>>
        /\ cleanup_old_requests(rate_limiter, now).routes[k] = <<now - 1>>

\* C11: RateLimiter::new stores the configured max_requests minus 1 when it
\* is greater than 1 and the configured value itself when it is 0 or 1; so
\* with the limiter enabled, configured 0 admits no request, and configured
\* 1 and configured 2 both admit the first request of a key with no
\* admission in the trailing window and never hold more than one admission
\* of a key in a trailing window.
C11_EffectiveCapIsConfiguredLessOne ==
    /\ rate_limiter.max_requests =
          IF g_configured > 1 THEN g_configured - 1 ELSE g_configured
    /\ \A f \in WellFormed :
          rate_limiter.enabled =>
             /\ g_configured = 0 => ~Decision(f)
             /\ g_configured \in {1, 2} =>
                   /\ Len(g_admitted[KeyOf(f)]) <= 1
                   /\ StartsWindow(KeyOf(f)) => Decision(f)
                   /\ g_admitted[KeyOf(f)] # <<>> => ~Decision(f)

\* C11 witness: a limiter configured with 2 has admitted one request of a
\* key in this window and denies the next one.
C11_Witness ==
    \E f \in WellFormed :
        /\ g_configured = 2
        /\ rate_limiter.enabled
        /\ Len(g_admitted[KeyOf(f)]) = 1
        /\ g_run[KeyOf(f)].n = 2
        /\ ~Decision(f)

\* the flows have the same address, protocol and destination port
SameBucket(f, g) == f[1] = g[1] /\ f[2] = g[2] /\ f[4] = g[4]

\* C12: two is_packet_secure calls that differ only in their nonzero source
\* port use one route-table entry: in every state either call returns the
\* same decision and leaves the same limiter, and after one of them the
\* other is decided exactly as a repetition of the first would be, so both
\* draw on one max_requests budget.
C12_SourcePortNotInKey ==
    \A f, g \in WellFormed :
        SameBucket(f, g) =>
            /\ is_packet_secure(rate_limiter, f, now) =
                  is_packet_secure(rate_limiter, g, now)
            /\ is_packet_secure(After(f), g, now) =
                  is_packet_secure(After(f), f, now)
            /\ Cardinality(DOMAIN After(g).routes \ Tracked) <= 1
            /\ DOMAIN is_packet_secure(After(f), g, now).self.routes =
                  DOMAIN After(f).routes

\* C12 witness: with an effective cap of 1 a request from one source port
\* is admitted now, and the request from another source port of the same
\* address, protocol and destination port that follows it is denied.
C12_Witness ==
    \E f, g \in WellFormed :
        /\ f # g
        /\ SameBucket(f, g)
        /\ rate_limiter.enabled
        /\ rate_limiter.max_requests = 1
        /\ Decision(f)
        /\ ~is_packet_secure(After(f), g, now).result

\* what is_packet_secure returns for flow f if no cleanup ever ran
DecisionUnpruned(f) == is_packet_secure(g_unpruned, f, now).result

\* C13 as stated: every call returns the same decision whether cleanups ran
\* in between or never ran.
C13_DecisionIndependentOfCleanup ==
    \A f \in WellFormed : Decision(f) = DecisionUnpruned(f)

\* C13 amended: as long as the route table of the run without cleanups is
\* below max_routes, every call returns the same decision whether cleanups
\* ran in between or never ran.
C13_DecisionIndependentBelowCapacity ==
    \A f \in WellFormed :
        Cardinality(DOMAIN g_unpruned.routes) < g_unpruned.max_routes =>
            Decision(f) = DecisionUnpruned(f)

\* C13 witness: below capacity, cleanups have removed a key that the run
\* without cleanups still tracks, and a request for a key at its cap is
\* denied in both runs.
C13_Witness ==
    \E f \in WellFormed :
        /\ rate_limiter.enabled
        /\ rate_limiter.max_requests >= 1
        /\ Cardinality(DOMAIN g_unpruned.routes) < g_unpruned.max_routes
        /\ DOMAIN g_unpruned.routes # Tracked
        /\ ~Decision(f)
        /\ ~DecisionUnpruned(f)

\* the sequence of key k in a route table, empty if the key is not in it
SeqOf(routes, k) == IF k \in DOMAIN routes THEN routes[k] ELSE <<>>

\* C18: an is_allowed that returns false records no timestamp: the key's
\* sequence is then exactly its timestamps of before aged at most window;
\* an is_allowed that returns true leaves those followed by `now`; either
\* way every other key keeps its sequence, no key other than the requested
\* one appears, and nothing else in the limiter changes.
C18_DenialRecordsNothing ==
    \A k \in ReqKeys :
        LET out  == is_allowed(rate_limiter, k, now)
            live == NotExpired(SeqOf(Routes, k), now)
        IN  /\ SeqOf(out.self.routes, k) =
                  IF out.result THEN Append(live, now) ELSE live
            /\ \A j \in Tracked \ {k} :
                  /\ j \in DOMAIN out.self.routes
                  /\ out.self.routes[j] = Routes[j]
            /\ DOMAIN out.self.routes \subseteq Tracked \cup {k}
            /\ [out.self EXCEPT !.routes = Routes] = rate_limiter

\* C18 witness: one key holds as many live timestamps as the cap allows and
\* is denied; another holds an expired and a live timestamp and is
\* admitted.
C18_Witness ==
    \E k1, k2 \in ReqKeys \cap Tracked :
        /\ rate_limiter.enabled
        /\ Len(Routes[k1]) >= 1
        /\ ~is_allowed(rate_limiter, k1, now).result
        /\ NotExpired(Routes[k2], now) \notin {<<>>, Routes[k2]}
        /\ is_allowed(rate_limiter, k2, now).result

\* C19: only a cleanup removes keys from the route table: no
\* is_packet_secure, whatever its flow, leaves a table without a key that
\* was tracked, and every step that is not a cleanup (a call of
\* is_packet_secure or set_rate_limiter, the passing of time) keeps every
\* tracked key, also the keys whose timestamps have all expired.
C19_OnlyCleanupRemovesKeys ==
    /\ [](\A f \in Flows : Tracked \subseteq DOMAIN After(f).routes)
    /\ [][Tracked \subseteq DOMAIN rate_limiter'.routes \/ CleanupTick]_vars

\* C19 witness: a key whose timestamps have all expired is still tracked
\* right after a request for another key was admitted, and a cleanup now
\* would remove it.
C19_Witness ==
    \E k, j \in ReqKeys \cap Tracked :
        /\ Routes[k] # <<>>
        /\ NotExpired(Routes[k], now) = <<>>
        /\ g_idle[j] = 0
        /\ Routes[j] = <<now>>
        /\ k \notin DOMAIN cleanup_old_requests(rate_limiter, now).routes

(***************************************************************************)
(* Claims checked under SpecGate and FairGate                              *)
(***************************************************************************)
\* background_task is in its loop (RUNNING)
Running == bg_pc \in {"select", "rl_lock", "rl_locked"}

\* C6 as stated: a set_cancel_token that waits for the lock of cancel_token
\* while the background task is RUNNING eventually returns.
C6_ReplacementCompletes ==
    \A c \in Callers :
        (pc[c] = "sct_lock" /\ Running) ~> (pc[c] = "idle")

\* C6 witness: a caller waits in set_cancel_token for the lock of
\* cancel_token, which the RUNNING background task holds, and no token has
\* fired.
C6_Witness ==
    \E c \in Callers :
        /\ pc[c] = "sct_lock"
        /\ Running
        /\ cancel_token_lock = "bg"
        /\ cancelled = {}

\* C7: once the token inside cancel_token has fired while the background
\* task is RUNNING, the task reaches STOPPED, also from the wait for the
\* next tick; STOPPED is terminal and the task does no counting or cleanup
\* after it.
C7_CancellationStopsTheLoop ==
    /\ (Running /\ cancel_token \in cancelled) ~> (bg_pc = "stopped")
    /\ [][bg_pc = "stopped" =>
            /\ bg_pc' = "stopped"
            /\ rate_limiter_cnt' = rate_limiter_cnt
            /\ rate_limiter_lock' # "bg"]_vars

\* C7 witness: a token installed by set_cancel_token has fired and the
\* task has stopped after some ticks.
C7_Witness ==
    /\ bg_pc = "stopped"
    /\ cancel_token = "shutdown"
    /\ "shutdown" \in cancelled
    /\ rate_limiter_cnt > 0

\* a source or destination port of the flow is 0
ZeroPort(flow) == flow[3] = 0 \/ flow[4] = 0

\* C8: is_packet_secure with source port 0 or destination port 0 returns
\* false at once: the caller does not go on to the lock of rate_limiter,
\* and neither the lock nor the limiter changes.
C8_ZeroPortDeniedWithoutLock ==
    [][\A c \in Callers : \A f \in GateFlows :
          (is_packet_secure_call(c, f) /\ ZeroPort(f)) =>
              /\ ret' = [flow |-> f, res |-> FALSE]
              /\ pc'[c] = "idle"
              /\ rate_limiter_lock' = rate_limiter_lock
              /\ rate_limiter' = rate_limiter]_vars

\* C8 witness: the last call to return had a zero port and returned false;
\* the limiter is disabled, holds a key, and its lock is held by a task.
C8_Witness ==
    /\ ret # NoCall
    /\ ZeroPort(ret.flow)
    /\ ~ret.res
    /\ rate_limiter_lock # Free
    /\ ~rate_limiter.enabled
    /\ Tracked # {}

\* the tasks inside the critical section of the rate_limiter Mutex
InCritical ==
    { c \in Callers : pc[c] \in {"ips_locked", "srl_locked"} }
        \cup (IF bg_pc = "rl_locked" THEN {"bg"} ELSE {})

\* C14: at most one task is inside the critical section of rate_limiter,
\* and it is the holder of the lock; the enabled flag changes only when a
\* set_rate_limiter(e) releases the lock, and then to e; and an
\* is_packet_secure that holds the lock decides with the flag as it is
\* then: true without touching the limiter if it is false, by is_allowed
\* if it is true.
C14_LimiterAccessSerialized ==
    /\ [](/\ Cardinality(InCritical) <= 1
          /\ InCritical = {rate_limiter_lock} \ {Free})
    /\ [][\A c \in Callers :
            /\ (pc[c] = "srl_locked" /\ pc'[c] = "idle") =>
                   rate_limiter'.enabled = arg[c].enabled
            /\ (pc[c] = "ips_locked" /\ pc'[c] = "idle") =>
                   /\ ret'.flow = arg[c].flow
                   /\ ~rate_limiter.enabled =>
                         ret'.res /\ rate_limiter' = rate_limiter
                   /\ rate_limiter.enabled =>
                         /\ ret'.res =
                               is_allowed(rate_limiter,
                                          <<arg[c].flow[1], arg[c].flow[2],
                                            arg[c].flow[4]>>, now).result
                         /\ rate_limiter'.enabled]_vars
    /\ [][rate_limiter'.enabled # rate_limiter.enabled =>
            \E c \in Callers : pc[c] = "srl_locked" /\ pc'[c] = "idle"]_vars

\* C14 witness: a caller is inside is_packet_secure with the lock, with the
\* flag just set to false by another caller's set_rate_limiter, while that
\* caller waits for the lock again to set it to true and the background
\* task waits for the lock too.
C14_Witness ==
    /\ pc["c1"] = "ips_locked"
    /\ rate_limiter_lock = "c1"
    /\ ~rate_limiter.enabled
    /\ pc["c2"] = "srl_lock"
    /\ arg["c2"].enabled
    /\ bg_pc = "rl_lock"

\* C15: every is_packet_secure and every set_rate_limiter that has been
\* called returns, whatever the other caller and the background task do;
\* and whoever holds the lock of rate_limiter is past its await points: the
\* background task holds it neither while it waits for the tick or the
\* token nor after it has stopped, and a caller that holds it waits for no
\* lock.
C15_CallsReturn ==
    /\ \A c \in Callers :
          (pc[c] \in {"ips_lock", "ips_locked", "srl_lock", "srl_locked"})
              ~> (pc[c] = "idle")
    /\ [](/\ rate_limiter_lock = "bg" => bg_pc = "rl_locked"
          /\ \A c \in Callers :
                rate_limiter_lock = c =>
                    pc[c] \in {"ips_locked", "srl_locked"})

\* C15 witness: both callers wait for the lock of rate_limiter, one in
\* is_packet_secure and one in set_rate_limiter, while the background task
\* holds it; the task's token has not fired.
C15_Witness ==
    /\ pc["c1"] = "ips_lock"
    /\ pc["c2"] = "srl_lock"
    /\ rate_limiter_lock = "bg"
    /\ cancel_token \notin cancelled

\* C16: the background task runs cleanup_old_requests on a tick exactly
\* when the tick is the tenth of its group, the groups counted from the
\* start of the loop: on ticks 10, 20, ... and on no other; a tick that
\* runs it leaves the limiter cleanup_old_requests returns, any other
\* leaves the limiter as it was.
C16_CleanupOnEveryTenthTick ==
    /\ [](g_pruned <=> g_tick = 10)
    /\ [][g_tick' # g_tick =>
            /\ bg_pc = "rl_locked"
            /\ rate_limiter' =
                  IF g_tick' = 10
                  THEN cleanup_old_requests(rate_limiter, now)
                  ELSE rate_limiter]_vars

\* C16 witness: the tenth tick has been handled and has run the cleanup,
\* with a key in the table and no token fired.
C16_Witness ==
    /\ g_tick = 10
    /\ g_pruned
    /\ rate_limiter_cnt = 0
    /\ Tracked # {}
    /\ cancelled = {}
    /\ bg_pc = "select"

\* C17 as stated: the background task waits for or holds the lock of
\* rate_limiter only on a tick on which its counter wraps to zero.
C17_LockOnlyOnCleanupTicks ==
    (bg_pc \in {"rl_lock", "rl_locked"} \/ rate_limiter_lock = "bg") =>
        (rate_limiter_cnt + 1) % 10 = 0

\* C17 witness: on its first tick, which runs no cleanup, the background
\* task holds the lock of rate_limiter while a caller of is_packet_secure
\* waits for it.
C17_Witness ==
    /\ g_tick = 0
    /\ rate_limiter_cnt = 0
    /\ bg_pc = "rl_locked"
    /\ rate_limiter_lock = "bg"
    /\ \E c \in Callers : pc[c] = "ips_lock"

(***************************************************************************)
(* Claims checked under SpecLoop and FairLoop                              *)
(***************************************************************************)
\* the route table holds max_routes keys
Full == Cardinality(Tracked) >= rate_limiter.max_routes

\* every timestamp in the table is older than window
AllExpired == \A k \in Tracked : NotExpired(Routes[k], now) = <<>>

\* the step is a tick of the background task that runs the cleanup
IsCleanupTick == g_tick' # g_tick /\ g_pruned'

\* C20: with the limiter enabled and max_requests >= 1, a request for an
\* untracked key is denied while the table is full, also when every stored
\* timestamp has expired; a full table stays full with the same keys over
\* every step that is not a cleanup tick, and no tick follows once the task
\* has stopped, so then the key is denied for ever; a cleanup of a table
\* whose timestamps have all expired leaves it empty, and with an empty
\* table the request is admitted; and while the task is RUNNING such a
\* table does become empty, unless the token fires or a tracked key is
\* requested again first.
C20_FullTableRecoversOnlyByCleanup ==
    /\ [](\A f \in LoopFlows :
            (rate_limiter.enabled /\ rate_limiter.max_requests >= 1) =>
               /\ (Full /\ KeyOf(f) \notin Tracked) => ~Decision(f)
               /\ Tracked = {} => Decision(f)
               /\ AllExpired =>
                     DOMAIN cleanup_old_requests(rate_limiter, now).routes = {})
    /\ [][\A f \in LoopFlows :
            (Full /\ KeyOf(f) \notin Tracked /\ ~IsCleanupTick) =>
                (Tracked' = Tracked /\ Full')]_vars
    /\ [][bg_pc = "stopped" =>
            (bg_pc' = "stopped" /\ ~IsCleanupTick /\ g_tick' = g_tick)]_vars
    /\ [][(IsCleanupTick /\ AllExpired) => Tracked' = {}]_vars
    /\ (Full /\ AllExpired /\ Running)
          ~> (Tracked = {} \/ ~AllExpired \/ cancel_token \in cancelled)

\* C20 witness: a key was requested and denied while the table was full
\* (the run without cleanups still has a full table without it); the tenth
\* tick has just emptied the table, and the key is admitted now.
C20_Witness ==
    \E f \in LoopFlows :
        /\ rate_limiter.enabled
        /\ Cardinality(DOMAIN g_unpruned.routes) = MAX_ROUTES
        /\ KeyOf(f) \notin DOMAIN g_unpruned.routes
        /\ g_idle[KeyOf(f)] # NoTime
        /\ g_pruned
        /\ Tracked = {}
        /\ Decision(f)
        /\ ~DecisionUnpruned(f)

=============================================================================
